---------------------------- MODULE Spec2Model ----------------------------
(***************************************************************************)
(* Model of the NZS 3101 beam moment-capacity calculator:                  *)
(*   src/BeamMCap_1.py    the desktop form (calculate_capacity, export_pdf)*)
(*   src/BeamMCap_Web.py  the web script (runs top to bottom on each run)  *)
(*                                                                         *)
(* Python floats are modelled as binary fixed-point numbers: a value is a  *)
(* signed integer count of units of Base^-FracLimbs (Base = 2^12).  Sums,  *)
(* differences and halvings of the values that occur are exact; products   *)
(* and quotients are truncated to the unit, as a float operation rounds    *)
(* its result to the precision of the format.  The integers involved do    *)
(* not fit a machine word of the checker, so they are kept as sequences of *)
(* limbs (least significant first, no leading zero limb).                  *)
(*                                                                         *)
(* A request (the Calculate handler, one run of the web script) is taken   *)
(* step by step: the inputs, each iteration of the bisection loop, the     *)
(* results, the report.  Three specifications share these steps:           *)
(*   Spec         the life of either program: any sequence of requests     *)
(*                and exports, with a few entries;                         *)
(*   SolveSpec    the first request of either program, with many entries;  *)
(*   CompareSpec  two requests of the form that differ in fy.              *)
(***************************************************************************)
EXTENDS Integers, Sequences, FiniteSets, TLC

\* ------------------------------------------------------------ precision

\* Number of fractional limbs of a fixed-point value.
FracLimbs == 5

\* A limb holds 12 bits.
Base == 2 ^ 12

\* ------------------------------------------------- natural numbers (limbs)

RECURSIVE NatNorm(_)
NatNorm(s) ==
    IF s = <<>> THEN <<>>
    ELSE IF s[Len(s)] = 0 THEN NatNorm(SubSeq(s, 1, Len(s) - 1))
    ELSE s

RECURSIVE NatFromInt(_)
NatFromInt(n) ==
    IF n = 0 THEN <<>> ELSE <<n % Base>> \o NatFromInt(n \div Base)

Limb(x, i) == IF i >= 1 /\ i <= Len(x) THEN x[i] ELSE 0

RECURSIVE NatCmpAt(_, _, _)
NatCmpAt(x, y, i) ==
    IF i = 0 THEN 0
    ELSE IF x[i] < y[i] THEN -1
    ELSE IF x[i] > y[i] THEN 1
    ELSE NatCmpAt(x, y, i - 1)

\* -1, 0, 1 as x < y, x = y, x > y.
NatCmp(x, y) ==
    IF Len(x) < Len(y) THEN -1
    ELSE IF Len(x) > Len(y) THEN 1
    ELSE NatCmpAt(x, y, Len(x))

RECURSIVE NatAddAt(_, _, _, _)
NatAddAt(x, y, i, carry) ==
    IF i > Len(x) /\ i > Len(y)
    THEN (IF carry = 0 THEN <<>> ELSE <<carry>>)
    ELSE LET s == Limb(x, i) + Limb(y, i) + carry
         IN  <<s % Base>> \o NatAddAt(x, y, i + 1, s \div Base)

NatAdd(x, y) == NatAddAt(x, y, 1, 0)

RECURSIVE NatSubAt(_, _, _, _)
NatSubAt(x, y, i, borrow) ==
    IF i > Len(x) THEN <<>>
    ELSE LET s == x[i] - Limb(y, i) - borrow
         IN  IF s < 0
             THEN <<s + Base>> \o NatSubAt(x, y, i + 1, 1)
             ELSE <<s>> \o NatSubAt(x, y, i + 1, 0)

\* x - y for x >= y.
NatSub(x, y) == NatNorm(NatSubAt(x, y, 1, 0))

RECURSIVE ConvSum(_, _, _, _)
ConvSum(x, y, k, i) ==
    IF i > Len(x) \/ i > k THEN 0
    ELSE (IF k + 1 - i <= Len(y) THEN x[i] * y[k + 1 - i] ELSE 0)
         + ConvSum(x, y, k, i + 1)

RECURSIVE CarryAt(_, _, _)
CarryAt(s, i, carry) ==
    IF i > Len(s)
    THEN (IF carry = 0 THEN <<>> ELSE NatFromInt(carry))
    ELSE LET t == s[i] + carry
         IN  <<t % Base>> \o CarryAt(s, i + 1, t \div Base)

NatMul(x, y) ==
    IF x = <<>> \/ y = <<>> THEN <<>>
    ELSE NatNorm(CarryAt([k \in 1..(Len(x) + Len(y) - 1) |->
                             ConvSum(x, y, k, IF k > Len(y) THEN k + 1 - Len(y) ELSE 1)],
                         1, 0))

\* x * Base^n and x \div Base^n.
NatShiftUp(x, n) == IF x = <<>> THEN <<>> ELSE [i \in 1..n |-> 0] \o x
NatShiftDown(x, n) == IF Len(x) <= n THEN <<>> ELSE SubSeq(x, n + 1, Len(x))

\* y * q for a single limb q.
RECURSIVE MulLimbAt(_, _, _, _)
MulLimbAt(y, q, i, carry) ==
    IF i > Len(y) THEN (IF carry = 0 THEN <<>> ELSE <<carry>>)
    ELSE LET t == y[i] * q + carry
         IN  <<t % Base>> \o MulLimbAt(y, q, i + 1, t \div Base)

MulLimb(y, q) == IF q = 0 THEN <<>> ELSE MulLimbAt(y, q, 1, 0)

\* One quotient limb of long division, for r < y*Base and y's top limb at
\* least Base/2: the estimate from the top limbs is at most 2 too large.
RECURSIVE QuotFix(_, _, _)
QuotFix(r, y, q) ==
    IF NatCmp(MulLimb(y, q), r) = 1 THEN QuotFix(r, y, q - 1) ELSE q

QuotLimb(r, y) ==
    LET n == Len(y)
        top == IF Len(r) > n THEN r[n + 1] * Base + r[n] ELSE r[n]
        est == top \div y[n]
    IN  IF Len(r) < n THEN 0
        ELSE QuotFix(r, y, IF est > Base - 1 THEN Base - 1 ELSE est)

\* The quotient limbs of x[i..] by y, given the remainder r of the limbs
\* above i and the quotient limbs qs found so far.
RECURSIVE LongDiv(_, _, _, _, _)
LongDiv(x, y, i, r, qs) ==
    IF i = 0 THEN qs
    ELSE LET r2 == NatNorm(<<x[i]>> \o r)
             q  == QuotLimb(r2, y)
         IN  LongDiv(x, y, i - 1,
                     IF q = 0 THEN r2 ELSE NatSub(r2, MulLimb(y, q)),
                     <<q>> \o qs)

\* floor(x / y) for y # 0; both operands are first scaled so that the
\* divisor's top limb is at least Base/2.
NatDiv(x, y) ==
    LET f  == Base \div (y[Len(y)] + 1)
        xn == MulLimb(x, f)
    IN  NatNorm(LongDiv(xn, MulLimb(y, f), Len(xn), <<>>, <<>>))


\* ------------------------------------------------- fixed-point values (float)

\* A float: sign and magnitude, the magnitude counted in units of
\* Base^-FracLimbs.  Zero is never negative.
Fx(neg, mag) == [neg |-> neg /\ mag # <<>>, mag |-> mag]

Abs(n) == IF n < 0 THEN -n ELSE n

\* float(n) for an integer n.
FromInt(n) == Fx(n < 0, NatShiftUp(NatFromInt(Abs(n)), FracLimbs))

Zero == FromInt(0)

FNeg(x) == Fx(~x.neg, x.mag)

FAbs(x) == Fx(FALSE, x.mag)

\* x + y
FAdd(x, y) ==
    IF x.neg = y.neg THEN Fx(x.neg, NatAdd(x.mag, y.mag))
    ELSE IF NatCmp(x.mag, y.mag) >= 0 THEN Fx(x.neg, NatSub(x.mag, y.mag))
    ELSE Fx(y.neg, NatSub(y.mag, x.mag))

\* x - y
FSub(x, y) == FAdd(x, FNeg(y))

\* x * y
FMul(x, y) == Fx(x.neg # y.neg, NatShiftDown(NatMul(x.mag, y.mag), FracLimbs))

\* x / y for y # 0 (Python raises ZeroDivisionError for y = 0: the callers
\* test for it before they divide).
FDiv(x, y) == Fx(x.neg # y.neg, NatDiv(NatShiftUp(x.mag, FracLimbs), y.mag))

\* x < y
FLess(x, y) ==
    IF x.neg /\ ~y.neg THEN TRUE
    ELSE IF ~x.neg /\ y.neg THEN FALSE
    ELSE IF x.neg THEN NatCmp(x.mag, y.mag) = 1
    ELSE NatCmp(x.mag, y.mag) = -1

FLeq(x, y) == ~FLess(y, x)

\* min(x, y): Python returns the first argument unless the second is smaller.
FMin(x, y) == IF FLess(y, x) THEN y ELSE x

\* The float nearest the decimal literal n/d (d > 0).
FromRatio(n, d) == FDiv(FromInt(n), FromInt(d))

\* math.pi = 884279719003555 / 2^48, the mantissa in limbs.
PiMantissa == <<1443, 2184, 3946, 579, 3>>
Pi == Fx(FALSE, NatShiftDown(NatShiftUp(PiMantissa, FracLimbs), 4))


\* ------------------------------------------------------------- the inputs

\* The text of an entry field: a decimal numeral n/d, or (ok = FALSE) a text
\* that is no numeral.
Text(n, d) == [ok |-> TRUE, n |-> n, d |-> d]
BadText == [ok |-> FALSE, n |-> 0, d |-> 1]

\* float(text) raises ValueError unless the text is a numeral.
FloatRaises(t) == ~t.ok
ParseFloat(t) == FromRatio(t.n, t.d)

\* int(text) raises ValueError unless the text is an integer numeral.
IntRaises(t) == ~t.ok \/ t.d # 1
ParseInt(t) == t.n

FloatFields == {"b", "h", "cover", "fc", "fy", "Es", "alpha1", "beta1", "dt", "dc"}
IntFields == {"nt", "nc"}

ParseRaises(e) ==
    \/ \E f \in FloatFields : FloatRaises(e[f])
    \/ \E f \in IntFields : IntRaises(e[f])

\* The twelve values read from the entries.
Parse(e) ==
    [b |-> ParseFloat(e.b), h |-> ParseFloat(e.h), cover |-> ParseFloat(e.cover),
     fc |-> ParseFloat(e.fc), fy |-> ParseFloat(e.fy), Es |-> ParseFloat(e.Es),
     alpha1 |-> ParseFloat(e.alpha1), beta1 |-> ParseFloat(e.beta1),
     nt |-> ParseInt(e.nt), dt |-> ParseFloat(e.dt),
     nc |-> ParseInt(e.nc), dc |-> ParseFloat(e.dc)]

\* ------------------------------------------------------------- the solver

phi == FromRatio(85, 100)
eps_cu == FromRatio(3, 1000)
\* A variant of Tolerance with which the loop never breaks.
NoTolerance == Zero

\* abs(F_mid) < 1e-2
Tolerance == FromRatio(1, 100)
MaxIter == 60

Two == FromInt(2)

As_t(p) == FDiv(FMul(FMul(FromInt(p.nt), Pi), FMul(p.dt, p.dt)), FromInt(4))
As_c(p) == FDiv(FMul(FMul(FromInt(p.nc), Pi), FMul(p.dc, p.dc)), FromInt(4))
d(p) == FSub(FSub(p.h, p.cover), FDiv(p.dt, Two))
\* A variant of d_prime without the test for compression bars.
d_prime_unguarded(p) == FAdd(p.cover, FDiv(p.dc, Two))

d_prime(p) == IF p.nc > 0 THEN FAdd(p.cover, FDiv(p.dc, Two)) ELSE Zero
T(p) == FMul(As_t(p), p.fy)

\* The values and the derived values, computed once before the iteration.
Derive(p) ==
    [b |-> p.b, h |-> p.h, cover |-> p.cover, fc |-> p.fc, fy |-> p.fy, Es |-> p.Es,
     alpha1 |-> p.alpha1, beta1 |-> p.beta1, nt |-> p.nt, dt |-> p.dt,
     nc |-> p.nc, dc |-> p.dc,
     As_t |-> As_t(p), As_c |-> As_c(p), d |-> d(p), d_prime |-> d_prime(p),
     T |-> T(p)]

c_of(q, a) == FDiv(a, q.beta1)
eps_sc_of(q, c) ==
    IF q.nc > 0 THEN FDiv(FMul(eps_cu, FSub(c, q.d_prime)), c) ELSE Zero
fs_c_of(q, eps_sc) ==
    IF q.nc > 0 THEN FMin(FMul(q.Es, eps_sc), q.fy) ELSE Zero
Cc_of(q, a) == FMul(FMul(FMul(q.alpha1, q.fc), q.b), a)
Cs_of(q, fs_c) == FMul(q.As_c, fs_c)

\* equilibrium(a) raises ZeroDivisionError when it divides by beta1 = 0 or,
\* with compression steel, by c = 0.
EquilibriumRaises(q, a) ==
    \/ q.beta1 = Zero
    \/ q.nc > 0 /\ c_of(q, a) = Zero

equilibrium(q, a) ==
    LET c == c_of(q, a)
        eps_sc == eps_sc_of(q, c)
        fs_c == fs_c_of(q, eps_sc)
        Cc == Cc_of(q, a)
        Cs == Cs_of(q, fs_c)
    IN  FSub(FAdd(Cc, Cs), q.T)

\* The state of the bisection loop: the iterations done, the interval, the
\* last trial and its residuals, and where the loop stands ("loop": another
\* iteration follows, "done": left by break or by exhausting the range,
\* "raised": an iteration raised ZeroDivisionError).
LoopStart(q) ==
    [i |-> 0, a_low |-> FromInt(1), a_high |-> q.h, a_mid |-> Zero,
     F_low |-> Zero, F_mid |-> Zero, at |-> "loop"]

Half == FromRatio(5, 10)

\* Variants of SignChange: the comparison turned around, and the tie taken
\* for a change of sign.
SameSign(x, y) == FLess(Zero, FMul(x, y))
SignChangeOrTie(x, y) == FLeq(FMul(x, y), Zero)

\* if F_low * F_mid < 0
SignChange(x, y) == FLess(FMul(x, y), Zero)

\* One iteration of "for _ in range(60)".
LoopIter(q, s) ==
    LET a_mid == FMul(Half, FAdd(s.a_low, s.a_high))
    IN  IF EquilibriumRaises(q, s.a_low) \/ EquilibriumRaises(q, a_mid)
        THEN [s EXCEPT !.a_mid = a_mid, !.at = "raised"]
        ELSE LET F_low == equilibrium(q, s.a_low)
                 F_mid == equilibrium(q, a_mid)
                 lower == SignChange(F_low, F_mid)
             IN  [i |-> s.i + 1,
                  a_low |-> IF lower THEN s.a_low ELSE a_mid,
                  a_high |-> IF lower THEN a_mid ELSE s.a_high,
                  a_mid |-> a_mid, F_low |-> F_low, F_mid |-> F_mid,
                  at |-> IF FLess(FAbs(F_mid), Tolerance) \/ s.i + 1 = MaxIter
                         THEN "done" ELSE "loop"]

\* The final results, recomputed at a = a_mid.
FinalResults(q, a) ==
    LET c == c_of(q, a)
        eps_sc == eps_sc_of(q, c)
        fs_c == fs_c_of(q, eps_sc)
        Cc == Cc_of(q, a)
        Cs == Cs_of(q, fs_c)
        Mn == FDiv(FAdd(FMul(Cc, FSub(q.d, FDiv(a, Two))),
                        FMul(Cs, FSub(q.d, q.d_prime))),
                   FromInt(1000000))
    IN  [a |-> a, c |-> c, eps_sc |-> eps_sc, fs_c |-> fs_c, Cc |-> Cc, Cs |-> Cs,
         Mn |-> Mn, phiMn |-> FMul(phi, Mn)]

\* ---------------------------------------------------- display and report

RECURSIVE Pow10(_)
Pow10(k) == IF k = 0 THEN <<1>> ELSE MulLimb(Pow10(k - 1), 10)

\* f"{x:.kf}": x rounded to k decimals (ties to even), as sign, digits
\* (an integer count of 10^-k) and k.  A negative x keeps its sign even when
\* every digit printed is 0.
Fmt(x, k) ==
    LET s == NatMul(x.mag, Pow10(k))
        whole == NatShiftDown(s, FracLimbs)
        frac == NatNorm(SubSeq(s, 1, IF Len(s) < FracLimbs THEN Len(s) ELSE FracLimbs))
        half == NatShiftUp(<<Base \div 2>>, FracLimbs - 1)
        cmp == NatCmp(frac, half)
        up == cmp = 1 \/ (cmp = 0 /\ Limb(whole, 1) % 2 = 1)
    IN  [neg |-> x.neg, digits |-> IF up THEN NatAdd(whole, <<1>>) ELSE whole,
         places |-> k]

\* The five result lines set into result_text (or written by the web script).
ResultLines(r) ==
    [kind |-> "result",
     lines |-> << <<"Equivalent stress-block depth a =", Fmt(r.a, 2), "mm">>,
                  <<"Neutral axis depth c =", Fmt(r.c, 2), "mm">>,
                  <<"Compression steel stress =", Fmt(r.fs_c, 2), "MPa">>,
                  <<"Nominal moment Mn =", Fmt(r.Mn, 2), "kN.m">>,
                  <<"Design moment phiMn =", Fmt(r.phiMn, 2), "kN.m">> >>]

\* result_text.set("Error: " + str(e))
ErrorLine(exc) == [kind |-> "error", lines |-> << <<"Error: ", exc>> >>]

NoText == [kind |-> "empty", lines |-> <<>>]

\* The report raises ZeroDivisionError in {fy/Es:.5f} when Es = 0.
ReportRaises(q) == q.Es = Zero

Thousand == FromInt(1000)

\* The lines of the report string of the desktop form; <<>> is a blank line.
Report(q, r) ==
    << <<>>,
       <<"NZS 3101 BEAM FLEXURAL CAPACITY CALCULATION REPORT">>,
       <<"--------------------------------------------------">>,
       <<"INPUT DATA">>,
       <<"Width (b) =", Fmt(q.b, 1)>>,
       <<"Depth (h) =", Fmt(q.h, 1)>>,
       <<"Cover =", Fmt(q.cover, 1)>>,
       <<"f'c, fy, Es =", Fmt(q.fc, 1), Fmt(q.fy, 1), Fmt(q.Es, 0)>>,
       <<"Tension bars:", q.nt, q.dt>>,
       <<"Compression bars:", q.nc, q.dc>>,
       <<"alpha1, beta1, phi =", Fmt(q.alpha1, 2), Fmt(q.beta1, 2), Fmt(phi, 2)>>,
       <<>>,
       <<"REFERENCES">>,
       <<"NZS 3101: Part 1 Clause 9.4.1.3">>,
       <<"NZS 3101: Part 1 Clause 9.4.1.2">>,
       <<"NZS 3101: Part 1 Clause 9.3.1">>,
       <<"NZS 3101: Part 1 Clause 9.5.1, eps_y =", Fmt(FDiv(q.fy, q.Es), 5)>>,
       <<>>,
       <<"CALCULATIONS">>,
       <<"1. Effective depths:">>,
       <<"d =", Fmt(q.d, 1)>>,
       <<"d' =", Fmt(q.d_prime, 1)>>,
       <<"2. Reinforcement areas:">>,
       <<"As,t =", Fmt(q.As_t, 2)>>,
       <<"As,c =", Fmt(q.As_c, 2)>>,
       <<"3. Equilibrium of forces:">>,
       <<"T =", Fmt(FDiv(q.T, Thousand), 2)>>,
       <<"a =", Fmt(r.a, 2)>>,
       <<"c =", Fmt(r.c, 2)>>,
       <<"4. eps_sc, f_sc =", Fmt(r.eps_sc, 6), Fmt(r.fs_c, 2)>>,
       <<"5. Forces:">>,
       <<"Cc =", Fmt(FDiv(r.Cc, Thousand), 2)>>,
       <<"Cs =", Fmt(FDiv(r.Cs, Thousand), 2)>>,
       <<"6. Moment capacity:">>,
       <<"M_n = Cc (d - a/2) + Cs (d - d')">>,
       <<"=", Fmt(r.Mn, 2)>>,
       <<"Design strength (phi = 0.85):">>,
       <<"phi M_n =", Fmt(r.phiMn, 2)>>,
       <<>>,
       <<"CONCLUSION">>,
       <<"Design moment capacity =", Fmt(r.phiMn, 2)>>,
       <<"(Use in comparison with factored design moment M_u)">>,
       <<>> >>

\* The lines of report_text of the web script.
WebReport(q, r) ==
    << <<>>,
       <<"NZS 3101 Beam Calculation Report">>,
       <<>>,
       <<"Inputs:">>,
       <<"b, h, cover =", q.b, q.h, q.cover>>,
       <<"f'c, fy, Es =", q.fc, q.fy, q.Es>>,
       <<"Tension bars:", q.nt, q.dt>>,
       <<"Compression bars:", q.nc, q.dc>>,
       <<"alpha1, beta1, phi =", q.alpha1, q.beta1, phi>>,
       <<>>,
       <<"Results:">>,
       <<"a =", Fmt(r.a, 2)>>,
       <<"c =", Fmt(r.c, 2)>>,
       <<"Compression steel stress =", Fmt(r.fs_c, 2)>>,
       <<"Mn =", Fmt(r.Mn, 2)>>,
       <<"phiMn =", Fmt(r.phiMn, 2)>>,
       <<>> >>

\* last_report: None, or the report string.
None == [some |-> FALSE, lines |-> <<>>]
Some(lines) == [some |-> TRUE, lines |-> lines]

\* "not last_report": None and the empty string are both false.
Falsy(report) == ~report.some \/ report.lines = <<>>

IsBlank(line) == Len(line) = 0
NotBlank(line) == ~IsBlank(line)

\* [Paragraph(p.strip(), ...) for p in report.split("\n") if p.strip()]
Story(lines) == SelectSeq(lines, NotBlank)


\* ------------------------------------------------------ the entry texts

\* The number of yield strengths tried above the smallest one.
FySteps == 2

\* The defaults of the form ("fields").
Default ==
    [b |-> Text(300, 1), h |-> Text(450, 1), cover |-> Text(40, 1),
     fc |-> Text(25, 1), fy |-> Text(500, 1), Es |-> Text(200000, 1),
     alpha1 |-> Text(85, 100), beta1 |-> Text(85, 100),
     nt |-> Text(3, 1), dt |-> Text(16, 1), nc |-> Text(3, 1), dc |-> Text(10, 1)]

FyTexts == {Text(10, 1)} \cup {Text(250 * k, 1) : k \in 1..FySteps}
DepthTexts == {Text(1, 2), Text(1, 1), Text(450, 1)}

\* Entries that satisfy the documented constraints.
GridEntries ==
    {[Default EXCEPT !.h = h, !.fy = fy, !.nt = Text(nt, 1), !.nc = Text(nc, 1)] :
        h \in DepthTexts, fy \in FyTexts, nt \in {3, 40}, nc \in {0, 3}}

BarEntries ==
    {[Default EXCEPT !.nc = Text(0, 1), !.dc = dc] : dc \in {Text(0, 1), Text(16, 1)}}

\* Entries that violate a documented constraint, and texts that do not parse.
BadEntries ==
    {[Default EXCEPT !.b = Text(-300, 1)], [Default EXCEPT !.h = Text(-1, 1)],
     [Default EXCEPT !.h = Text(-450, 1)], [Default EXCEPT !.cover = Text(-40, 1)],
     [Default EXCEPT !.nt = Text(0, 1)],
     [Default EXCEPT !.fc = Text(0, 1)], [Default EXCEPT !.fc = Text(-25, 1)],
     [Default EXCEPT !.fy = Text(0, 1)], [Default EXCEPT !.fy = Text(-500, 1)],
     [Default EXCEPT !.Es = Text(0, 1)], [Default EXCEPT !.Es = Text(-200000, 1)],
     [Default EXCEPT !.beta1 = Text(0, 1)],
     [Default EXCEPT !.fc = Text(0, 1), !.nt = Text(0, 1), !.nc = Text(0, 1)],
     [Default EXCEPT !.b = BadText], [Default EXCEPT !.nt = Text(5, 2)],
     [Default EXCEPT !.nc = BadText]}

Entries == GridEntries \cup BarEntries \cup BadEntries

\* --------------------------------------------------- one calculation

FieldOrder == <<"b", "h", "cover", "fc", "fy", "Es", "alpha1", "beta1",
                "nt", "dt", "nc", "dc">>

FieldRaises(e, f) == IF f \in IntFields THEN IntRaises(e[f]) ELSE FloatRaises(e[f])

\* str(e) of the ValueError of the first field, in the order read, that
\* does not parse.
RECURSIVE ParseError(_, _)
ParseError(e, i) ==
    IF FieldRaises(e, FieldOrder[i])
    THEN IF FieldOrder[i] \in IntFields
         THEN "invalid literal for int() with base 10"
         ELSE "could not convert string to float"
    ELSE ParseError(e, i + 1)

ZeroDivision == "float division by zero"

NoQ == [none |-> TRUE]
NoLoop == [at |-> "none"]
NoRes == [none |-> TRUE]
NoPrev == [some |-> FALSE]

\* A variant of ExceptReport that leaves last_report as it was.
KeepReport(old) == old

\* What the except clause assigns to last_report.
ExceptReport(old) == None

\* ------------------------------------------------------------- the state

VARIABLES
    app,          \* which program runs: "desktop" or "web"
    op,           \* the last operation completed: "start", "calculate",
                  \* "export", "web"
    entries,      \* the texts in the twelve entry fields (widget values)
    pc,           \* where the handler or script stands: "idle", "parse",
                  \* "loop", "report"
    derived,      \* its locals: the values read and the derived values
    bisect,       \* its locals: the state of the bisection loop
    results,      \* its locals: the final results (the locals stay as
                  \* the request left them until the next one starts)
    result_text,  \* the result display (the results written to the page)
    last_report,  \* the global last_report
    messagebox,   \* the message shown by the last export
    exported,     \* the story the last export wrote to a file, or None
    button,       \* the run of the web script was started by Save PDF Report
    escaped,      \* the exception that left the web script, "" for none
    previous      \* the outcome of the calculation before, where it is kept

vars == <<app, op, entries, pc, derived, bisect, results, result_text, last_report,
          messagebox, exported, button, escaped, previous>>

\* The state after construction, with the handler or script at position p
\* and the texts e in the entries.
Start(p, e) ==
    /\ op = "start"
    /\ entries = e
    /\ pc = p
    /\ derived = NoQ
    /\ bisect = NoLoop
    /\ results = NoRes
    /\ result_text = NoText
    /\ last_report = None
    /\ messagebox = ""
    /\ exported = None
    /\ button = FALSE
    /\ escaped = ""
    /\ previous = NoPrev

Init == app \in {"desktop", "web"} /\ Start("idle", Default)

\* ------------------------------------------ calculate_capacity (desktop)

\* The Calculate button is pressed with the texts e in the entries:
\* calculate_capacity() is entered with fresh locals.
calculate_capacity(e) ==
    /\ app = "desktop"
    /\ pc = "idle"
    /\ entries' = e
    /\ pc' = "parse"
    /\ derived' = NoQ
    /\ bisect' = NoLoop
    /\ results' = NoRes
    /\ UNCHANGED <<app, op, result_text, last_report, messagebox, exported, button,
                   escaped>>

\* except Exception as e: the message is displayed, last_report is
\* assigned and the handler returns.
Except(exc) ==
    /\ result_text' = ErrorLine(exc)
    /\ last_report' = ExceptReport(last_report)
    /\ pc' = "idle"
    /\ op' = "calculate"

\* The input values are read in the order of the source and the derived
\* values computed.
ReadInputs ==
    /\ app = "desktop"
    /\ pc = "parse"
    /\ IF ParseRaises(entries)
       THEN /\ Except(ParseError(entries, 1))
            /\ UNCHANGED <<derived, bisect>>
       ELSE /\ derived' = Derive(Parse(entries))
            /\ bisect' = LoopStart(derived')
            /\ pc' = "loop"
            /\ UNCHANGED <<op, result_text, last_report>>
    /\ UNCHANGED <<app, entries, results, messagebox, exported, button, escaped,
                   previous>>

\* One iteration of the bisection loop.
Iterate ==
    /\ app = "desktop"
    /\ pc = "loop"
    /\ bisect.at = "loop"
    /\ bisect' = LoopIter(derived, bisect)
    /\ IF bisect'.at = "raised"
       THEN Except(ZeroDivision)
       ELSE UNCHANGED <<pc, op, result_text, last_report>>
    /\ UNCHANGED <<app, entries, derived, results, messagebox, exported, button,
                   escaped, previous>>

\* The loop is left: the final results are computed and displayed.
ShowResults ==
    /\ app = "desktop"
    /\ pc = "loop"
    /\ bisect.at = "done"
    /\ results' = FinalResults(derived, bisect.a_mid)
    /\ result_text' = ResultLines(results')
    /\ pc' = "report"
    /\ UNCHANGED <<app, op, entries, derived, bisect, last_report, messagebox,
                   exported, button, escaped, previous>>

\* The report is built and stored in last_report, and the handler returns.
StoreReport ==
    /\ app = "desktop"
    /\ pc = "report"
    /\ IF ReportRaises(derived)
       THEN Except(ZeroDivision)
       ELSE /\ last_report' = Some(Report(derived, results))
            /\ pc' = "idle"
            /\ op' = "calculate"
            /\ UNCHANGED result_text
    /\ UNCHANGED <<app, entries, derived, bisect, results, messagebox, exported,
                   button, escaped, previous>>

\* ------------------------------------------------------------ export_pdf

\* The names the file dialog can return; "" when it is cancelled.
Filenames == {"", "report.pdf"}

\* The Save Report as PDF button.
export_pdf(filename) ==
    /\ app = "desktop"
    /\ pc = "idle"
    /\ IF Falsy(last_report)
       THEN /\ messagebox' = "Please calculate first."
            /\ exported' = None
       ELSE IF filename = ""
       THEN /\ messagebox' = ""
            /\ exported' = None
       ELSE /\ messagebox' = "Saved"
            /\ exported' = Some(Story(last_report.lines))
    /\ op' = "export"
    /\ UNCHANGED <<app, entries, pc, derived, bisect, results, result_text,
                   last_report, button, escaped, previous>>

\* -------------------------------------------------------- the web script

\* st.number_input returns a number, never a text: the web script has no
\* parsing step that can fail.
Widgets(E) == {e \in E : ~ParseRaises(e)}

\* The exception leaves the script: it has no try statement.
Escape(exc) ==
    /\ escaped' = exc
    /\ pc' = "idle"
    /\ op' = "web"

\* One run of the script starts with the widget values e (save: the run was
\* started by the Save PDF Report button): the page is cleared, the widgets
\* are read and the derived values computed.
web_script(e, save) ==
    /\ app = "web"
    /\ pc = "idle"
    /\ entries' = e
    /\ button' = save
    /\ derived' = Derive(Parse(e))
    /\ bisect' = LoopStart(derived')
    /\ results' = NoRes
    /\ result_text' = NoText
    /\ messagebox' = ""
    /\ exported' = None
    /\ escaped' = ""
    /\ pc' = "loop"
    /\ UNCHANGED <<app, op, last_report, previous>>

\* One iteration of the bisection loop of the script.
WebIterate ==
    /\ app = "web"
    /\ pc = "loop"
    /\ bisect.at = "loop"
    /\ bisect' = LoopIter(derived, bisect)
    /\ IF bisect'.at = "raised"
       THEN Escape(ZeroDivision)
       ELSE UNCHANGED <<pc, op, escaped>>
    /\ UNCHANGED <<app, entries, derived, results, result_text, last_report,
                   messagebox, exported, button, previous>>

\* The final results are computed and written to the page.
WebResults ==
    /\ app = "web"
    /\ pc = "loop"
    /\ bisect.at = "done"
    /\ results' = FinalResults(derived, bisect.a_mid)
    /\ result_text' = ResultLines(results')
    /\ pc' = "report"
    /\ UNCHANGED <<app, op, entries, derived, bisect, last_report, messagebox,
                   exported, button, escaped, previous>>

\* if st.button("Save PDF Report"): the PDF is built; the script ends.
WebSave ==
    /\ app = "web"
    /\ pc = "report"
    /\ IF button
       THEN /\ exported' = Some(Story(WebReport(derived, results)))
            /\ messagebox' = "PDF report saved"
       ELSE UNCHANGED <<exported, messagebox>>
    /\ pc' = "idle"
    /\ op' = "web"
    /\ UNCHANGED <<app, entries, derived, bisect, results, result_text, last_report,
                   button, escaped, previous>>

\* ------------------------------------------------------ the two programs

\* The entries tried in the life of the form: the defaults, no tension bar,
\* a text that is no number, and a zero that raises in the loop or in the
\* report.
FormEntries ==
    {Default, [Default EXCEPT !.nt = Text(0, 1)], [Default EXCEPT !.b = BadText],
     [Default EXCEPT !.beta1 = Text(0, 1)], [Default EXCEPT !.Es = Text(0, 1)]}

Next ==
    \/ \E e \in FormEntries : calculate_capacity(e) /\ UNCHANGED previous
    \/ ReadInputs
    \/ Iterate
    \/ ShowResults
    \/ StoreReport
    \/ \E filename \in Filenames : export_pdf(filename)
    \/ \E e \in Widgets(FormEntries), save \in BOOLEAN : web_script(e, save)
    \/ WebIterate
    \/ WebResults
    \/ WebSave

Spec == Init /\ [][Next]_vars

\* ------------------------------------------- one request, any entries

\* The first request after the start of either program, with any of the
\* entries.
NextSolve ==
    \/ op = "start" /\ \E e \in Entries : calculate_capacity(e) /\ UNCHANGED previous
    \/ ReadInputs
    \/ Iterate
    \/ ShowResults
    \/ StoreReport
    \/ op = "start" /\ \E e \in Widgets(Entries), save \in BOOLEAN : web_script(e, save)
    \/ WebIterate
    \/ WebResults
    \/ WebSave

SolveSpec == Init /\ [][NextSolve]_vars

\* ------------------------------------ two requests that differ in fy

\* The second request: fy is changed in the entries and Calculate pressed
\* again; the locals of the first request are kept for the comparison.
Recalculate(fy) ==
    /\ op = "calculate"
    /\ previous = NoPrev
    /\ calculate_capacity([entries EXCEPT !.fy = fy])
    /\ previous' = [some |-> TRUE, derived |-> derived, results |-> results]

\* The entries of the first request: the default geometry and bars, with or
\* without compression bars, and any of the yield strengths.
CompareEntries == {e \in GridEntries : e.nt = Default.nt /\ e.h = Default.h}

InitCompare == app = "desktop" /\ \E e \in CompareEntries : Start("parse", e)

NextCompare ==
    \/ ReadInputs
    \/ Iterate
    \/ ShowResults
    \/ StoreReport
    \/ \E fy \in FyTexts : Recalculate(fy)

CompareSpec == InitCompare /\ [][NextCompare]_vars

\* ------------------------------------------------------------ properties

One == FromInt(1)

\* A request has returned.
Returned == pc = "idle" /\ op \in {"calculate", "web"}

\* The request is past its inputs: the values are read and derived.
Solving == pc \in {"loop", "report"}

\* The values violate a documented constraint: a negative length, no
\* tension bar, a strength that is not positive, Es <= 0.
ViolatesConstraint(p) ==
    \/ FLess(p.b, Zero) \/ FLess(p.h, Zero) \/ FLess(p.cover, Zero)
    \/ p.nt = 0
    \/ FLeq(p.fc, Zero) \/ FLeq(p.fy, Zero) \/ FLeq(p.Es, Zero)

\* The lengths, strengths and stress-block factors are positive.
Positive(p) ==
    /\ FLess(Zero, p.b) /\ FLess(Zero, p.h) /\ FLess(Zero, p.cover)
    /\ FLess(Zero, p.fc) /\ FLess(Zero, p.fy) /\ FLess(Zero, p.Es)
    /\ FLess(Zero, p.alpha1) /\ FLess(Zero, p.beta1)

\* Values that satisfy every documented constraint; the residual is then
\* increasing in a.
Valid(p) == Positive(p) /\ p.nt > 0 /\ p.nc >= 0 /\ FLess(Zero, p.dt) /\ FLeq(Zero, p.dc)

\* C1: a request whose input violates a documented constraint never yields
\* the numeric result lines, and stores no report.
C1_InvalidInputRejected ==
    (Returned /\ ~ParseRaises(entries) /\ ViolatesConstraint(Parse(entries)))
        => (result_text.kind # "result" /\ last_report = None)

\* The most recent calculate succeeded: the display holds its result lines.
CalculateSucceeded == result_text.kind = "result"

\* C2: export writes a report only if the most recent calculate succeeded,
\* and then the report that calculate built; if no calculate has run or the
\* most recent one failed, export refuses with "Please calculate first." and
\* writes nothing.
C2_ExportAfterSuccessOnly ==
    (pc = "idle" /\ op = "export") =>
        /\ exported.some =>
              /\ CalculateSucceeded
              /\ exported = Some(Story(Report(derived, results)))
        /\ ~CalculateSucceeded =>
              /\ messagebox = "Please calculate first."
              /\ exported = None

\* An export is refused after a calculate that failed.
C2_Witness ==
    /\ pc = "idle"
    /\ op = "export"
    /\ result_text.kind = "error"
    /\ messagebox = "Please calculate first."

\* The request raised an exception: in parsing, in the loop or in the
\* report.
RequestRaised ==
    \/ app = "desktop" /\ ParseRaises(entries)
    \/ bisect.at = "raised"
    \/ app = "desktop" /\ bisect.at = "done" /\ ReportRaises(derived)

\* C3: in both programs an exception raised by a request is caught inside
\* it: none escapes, the display holds the single error message and no
\* report is stored.
C3_ExceptionsCaught ==
    (Returned /\ RequestRaised)
        => (escaped = "" /\ result_text.kind = "error" /\ last_report = None)

\* C4: for positive inputs the final a satisfies 1.0 <= a <= depth_h, and
\* a_low never drops below 1.0 during the iteration.
C4_DepthWithinInterval ==
    (Solving /\ Positive(derived)) =>
        /\ FLeq(One, bisect.a_low)
        /\ pc = "report" => (FLeq(One, results.a) /\ FLeq(results.a, derived.h))

\* fs_c as equilibrium(a) computes it.
TrialStress(q, a) == fs_c_of(q, eps_sc_of(q, c_of(q, a)))

\* C5: at every trial a that the residual is evaluated at (a_low, a_mid) and
\* in every result, |fs_c| <= fy.
C5_StressWithinYield ==
    (Solving /\ Valid(derived)) =>
        /\ bisect.at = "loop" =>
              FLeq(FAbs(TrialStress(derived, bisect.a_low)), derived.fy)
        /\ bisect.i > 0 =>
              FLeq(FAbs(TrialStress(derived, bisect.a_mid)), derived.fy)
        /\ pc = "report" => FLeq(FAbs(results.fs_c), derived.fy)

\* C6: with the default inputs the loop is left by the early exit, before
\* the 60 iterations are used up, and the a returned has
\* |Cc + Cs - T| < 0.01 with Cc and Cs recomputed at it.
C6_DefaultsConverge ==
    (entries = Default /\ pc = "report") =>
        /\ bisect.i < MaxIter
        /\ FLess(FAbs(FSub(FAdd(results.Cc, results.Cs), derived.T)),
                 FromRatio(1, 100))

\* The results of the default inputs are computed.
C6_Witness == entries = Default /\ pc = "report" /\ bisect.at = "done"

\* C7: with no compression bar As_c, d_prime, eps_sc, fs_c and Cs are 0
\* exactly, the residual is alpha1*fc*b*a - T at every trial a, and
\* Mn = Cc*(d - a/2)/1e6.
C7_NoCompressionSteel ==
    (Solving /\ derived.nc = 0 /\ bisect.at # "raised") =>
        /\ derived.As_c = Zero
        /\ derived.d_prime = Zero
        /\ \A a \in {bisect.a_low, bisect.a_mid, bisect.a_high} :
              equilibrium(derived, a) = FSub(Cc_of(derived, a), derived.T)
        /\ pc = "report" =>
              /\ results.eps_sc = Zero
              /\ results.fs_c = Zero
              /\ results.Cs = Zero
              /\ results.Mn = FDiv(FMul(results.Cc,
                                        FSub(derived.d, FDiv(results.a, Two))),
                                   FromInt(1000000))

\* Results without compression bars whose diameter is not 0.
C7_Witness == pc = "report" /\ derived.nc = 0 /\ derived.dc # Zero

\* C8: of two requests that differ only in fy, with fy1 <= fy2, the second
\* has T1 <= T2 and a1 <= a2.
C8_MonotoneInFy ==
    (pc = "report" /\ previous.some /\ FLeq(previous.derived.fy, derived.fy)) =>
        /\ FLeq(previous.derived.T, derived.T)
        /\ FLeq(previous.results.a, results.a)

\* The residual at the two ends of the initial interval.
F_first(q) == equilibrium(q, One)
F_last(q) == equilibrium(q, q.h)

\* The initial interval brackets no root: the residual has the same strict
\* sign at its two ends.
Unbracketed(q) ==
    \/ FLess(F_first(q), Zero) /\ FLess(F_last(q), Zero)
    \/ FLess(Zero, F_first(q)) /\ FLess(Zero, F_last(q))

\* depth_h > 1.0 and F(1.0) < 0 < F(depth_h).
Bracketed(q) == FLess(One, q.h) /\ FLess(F_first(q), Zero) /\ FLess(Zero, F_last(q))

\* The step is an iteration of the loop.
Iterated == pc = "loop" /\ bisect.at = "loop" /\ bisect' # bisect

\* y lies between x and z.
Between(x, y, z) == (FLeq(x, y) /\ FLeq(y, z)) \/ (FLeq(z, y) /\ FLeq(y, x))

Width(s) == FSub(s.a_high, s.a_low)

\* C9: when the initial interval brackets no root, no iteration raises,
\* every iteration takes the branch a_low = a_mid, a_high stays at depth_h,
\* the loop is left only after 60 iterations or with |F(a_mid)| < 0.01, and
\* a_mid moves toward depth_h, never away from it.
C9_Unbracketed ==
    [][(Iterated /\ Valid(derived) /\ Unbracketed(derived)) =>
          /\ bisect'.at # "raised"
          /\ bisect'.a_low = bisect'.a_mid
          /\ bisect'.a_high = derived.h
          /\ bisect'.at = "done" <=>
                \/ bisect'.i = MaxIter
                \/ FLess(FAbs(bisect'.F_mid), FromRatio(1, 100))
          /\ bisect.i > 0 => Between(bisect.a_mid, bisect'.a_mid, derived.h)]_vars

\* The 60 iterations are used up on an interval that brackets no root.
C9_Witness ==
    /\ pc = "report"
    /\ Valid(derived)
    /\ Unbracketed(derived)
    /\ bisect.i = MaxIter

=============================================================================
